---- MODULE Spec2Model ----
(***************************************************************************)
(* ProgressionBuilder (src/progressionbuilder.ts): a mutable chord         *)
(* progression (key + ordered slots) and the chord-suggestion pipeline     *)
(* that renders it into a prompt, awaits an external text generator and    *)
(* validates the reply.                                                    *)
(***************************************************************************)
EXTENDS Integers, Sequences, FiniteSets, TLC

VARIABLES
    progression,   \* this.progression: [key, chords]
    thrown,        \* what the last synchronous store call threw (NoError if it returned)
    requests,      \* the suggestChords calls: per request its position in the async function
    last,          \* history: the last recorded call, its arguments and the store before it
    script         \* the round-trip driver: the chords to insert and how far it got

vars == <<progression, thrown, requests, last, script>>

(***************************************************************************)
(* Bounds and input sets                                                   *)
(***************************************************************************)
MaxLen == 3          \* longest progression the store specification builds
MaxFlightLen == 2    \* longest progression while suggestion requests are in flight
MaxRequests == 2     \* suggestChords calls issued in one behaviour
MaxPlan == 3         \* longest chord sequence of the round-trip driver

NUM_SUGGESTIONS == 12

\* The empty slot (Chord = string | null).  No chord symbol equals it.
null == "<null>"

Keys == {"C major", "A minor"}
Chords == {"C", "Am"}
DefaultKey == "C major"

\* `undefined`, as read from a hole of an array.
undefined == "<undefined>"

NoError == [kind |-> "none"]

\* new Error(`Invalid position: ${position}. Must be between 0 and ${length - 1}`)
InvalidPosition(position, length) ==
    [kind |-> "InvalidPosition", position |-> position, max |-> length - 1]

(***************************************************************************)
(* Arrays (zero-based in the source, one-based sequences here)             *)
(***************************************************************************)
Min(a, b) == IF a < b THEN a ELSE b
Max(a, b) == IF a > b THEN a ELSE b

\* Array.prototype.splice's clamping of its start argument.
SpliceStart(arr, start) ==
    IF start < 0 THEN Max(Len(arr) + start, 0) ELSE Min(start, Len(arr))

\* arr.splice(start, 0, item)
SpliceInsert(arr, start, item) ==
    LET s == SpliceStart(arr, start)
    IN  SubSeq(arr, 1, s) \o <<item>> \o SubSeq(arr, s + 1, Len(arr))

\* arr.splice(start, 1)
SpliceDelete(arr, start) ==
    LET s == SpliceStart(arr, start)
    IN  SubSeq(arr, 1, s) \o SubSeq(arr, s + 2, Len(arr))

\* arr[index] = item: an index at or past the end grows the array (the holes
\* read back as undefined); a negative index sets a property and no element.
ArraySet(arr, index, item) ==
    IF index < 0 THEN arr
    ELSE [i \in 1..Max(Len(arr), index + 1) |->
            IF i = index + 1 THEN item
            ELSE IF i <= Len(arr) THEN arr[i] ELSE undefined]

(***************************************************************************)
(* Progression store                                                       *)
(***************************************************************************)
\* Variants of validatePosition with one comparison wrong.
validatePosition_noLowerBound(position) ==
    IF position >= Len(progression.chords)
    THEN InvalidPosition(position, Len(progression.chords))
    ELSE NoError

validatePosition_inclusiveEnd(position) ==
    IF position < 0 \/ position > Len(progression.chords)
    THEN InvalidPosition(position, Len(progression.chords))
    ELSE NoError

validatePosition_rejectsLast(position) ==
    IF position < 0 \/ position >= Len(progression.chords) - 1
    THEN InvalidPosition(position, Len(progression.chords))
    ELSE NoError

\* validatePosition: the error it throws, NoError when it returns.
validatePosition(position) ==
    IF position < 0 \/ position >= Len(progression.chords)
    THEN InvalidPosition(position, Len(progression.chords))
    ELSE NoError

setKey(key) ==
    /\ progression' = [progression EXCEPT !.key = key]
    /\ thrown' = NoError
    /\ UNCHANGED requests

\* A variant of addSlot() that puts the new slot first (unshift for push).
addSlot_unshift(arguments) ==
    /\ IF Len(arguments) = 0
       THEN /\ progression' = [progression EXCEPT !.chords = <<null>> \o @]
            /\ thrown' = NoError
       ELSE /\ thrown' = validatePosition(arguments[1])
            /\ progression' =
                 IF validatePosition(arguments[1]) = NoError
                 THEN [progression EXCEPT !.chords = SpliceInsert(@, arguments[1], null)]
                 ELSE progression
    /\ UNCHANGED requests

\* addSlot(position?): `arguments` is <<>> for addSlot() and <<position>> otherwise.
addSlot(arguments) ==
    /\ IF Len(arguments) = 0
       THEN /\ progression' = [progression EXCEPT !.chords = Append(@, null)]
            /\ thrown' = NoError
       ELSE /\ thrown' = validatePosition(arguments[1])
            /\ progression' =
                 IF validatePosition(arguments[1]) = NoError
                 THEN [progression EXCEPT !.chords = SpliceInsert(@, arguments[1], null)]
                 ELSE progression
    /\ UNCHANGED requests

\* A variant of addChord that inserts the chord (splice) instead of assigning it.
addChord_insert(position, chord) ==
    /\ thrown' = validatePosition(position)
    /\ progression' =
         IF validatePosition(position) = NoError
         THEN [progression EXCEPT !.chords = SpliceInsert(@, position, chord)]
         ELSE progression
    /\ UNCHANGED requests

addChord(position, chord) ==
    /\ thrown' = validatePosition(position)
    /\ progression' =
         IF validatePosition(position) = NoError
         THEN [progression EXCEPT !.chords = ArraySet(@, position, chord)]
         ELSE progression
    /\ UNCHANGED requests

\* A variant of removeSlot that clears the slot and keeps it.
removeSlot_clears(position) ==
    /\ thrown' = validatePosition(position)
    /\ progression' =
         IF validatePosition(position) = NoError
         THEN [progression EXCEPT !.chords = ArraySet(@, position, null)]
         ELSE progression
    /\ UNCHANGED requests

removeSlot(position) ==
    /\ thrown' = validatePosition(position)
    /\ progression' =
         IF validatePosition(position) = NoError
         THEN [progression EXCEPT !.chords = SpliceDelete(@, position)]
         ELSE progression
    /\ UNCHANGED requests

\* A variant that takes the slot out of the progression with its chord.
removeChord_splices(position) ==
    /\ thrown' = validatePosition(position)
    /\ progression' =
         IF validatePosition(position) = NoError
         THEN [progression EXCEPT !.chords = SpliceDelete(@, position)]
         ELSE progression
    /\ UNCHANGED requests

removeChord(position) ==
    /\ thrown' = validatePosition(position)
    /\ progression' =
         IF validatePosition(position) = NoError
         THEN [progression EXCEPT !.chords = ArraySet(@, position, null)]
         ELSE progression
    /\ UNCHANGED requests

(***************************************************************************)
(* Characters and texts.  A text is a sequence of one-character strings.   *)
(***************************************************************************)
Whitespace == {" ", "\n", "\t"}
Digits == {"0", "1", "2", "3", "4", "5", "6", "7", "8", "9"}
RootLetters == {"A", "B", "C", "D", "E", "F", "G"}
Accidentals == {"#", "b"}

\* Does `word` occur in `s` starting at index i?
Occurs(s, i, word) ==
    /\ i >= 1
    /\ i + Len(word) - 1 <= Len(s)
    /\ \A k \in 1..Len(word) : s[i + k - 1] = word[k]

\* The first index at or after i that holds no whitespace (Len(s) + 1 at the
\* end): where a greedy \s* stops when a non-space literal follows it.
RECURSIVE SkipWs(_, _)
SkipWs(s, i) ==
    IF i <= Len(s) /\ s[i] \in Whitespace THEN SkipWs(s, i + 1) ELSE i

MinOf(S) == CHOOSE x \in S : \A y \in S : x <= y

(***************************************************************************)
(* CHORD_PATTERN: anchored at both ends, in order                          *)
(*   a root [A-G][#b]?, an optional quality, an optional \d+, any number   *)
(*   of modifiers sus\d+ | add\d+ | b\d+ | #\d+, an optional /[A-G][#b]?   *)
(* Each group maps the set of indices the match may have reached before    *)
(* it to the set it may have reached after it (every way of backtracking). *)
(***************************************************************************)
\* A variant of the root group that knows no flat: [A-G]#?
RootGroup_sharpOnly(s) ==
    IF Len(s) >= 1 /\ s[1] \in RootLetters
    THEN {2} \cup (IF Len(s) >= 2 /\ s[2] = "#" THEN {3} ELSE {})
    ELSE {}

\* ([A-G][#b]?) from the start of the string
RootGroup(s) ==
    IF Len(s) >= 1 /\ s[1] \in RootLetters
    THEN {2} \cup (IF Len(s) >= 2 /\ s[2] \in Accidentals THEN {3} ELSE {})
    ELSE {}

QualityTokens ==
    { <<"m", "a", "j">>, <<"m", "a", "j", "7">>, <<"M">>, <<"M", "7">>,
      <<"m", "i", "n">>, <<"m", "i", "n", "7">>, <<"m">>, <<"m", "7">>,
      <<"d", "i", "m">>, <<"d", "i", "m", "7">>,
      <<"a", "u", "g">>, <<"a", "u", "g", "7">> }

\* (?:maj7?|M7?|min7?|m7?|dim7?|aug7?)?
QualityGroup(s, P) ==
    P \cup { p + Len(q) : <<p, q>> \in { x \in P \X QualityTokens : Occurs(s, x[1], x[2]) } }

\* \d+ from index p: the indices it may end before
DigitRuns(s, p) ==
    { e \in (p + 1)..(Len(s) + 1) : \A k \in p..(e - 1) : s[k] \in Digits }

\* (\d+)?
ExtensionGroup(s, P) == P \cup UNION { DigitRuns(s, p) : p \in P }

ModifierTokens == { <<"s", "u", "s">>, <<"a", "d", "d">>, <<"b">>, <<"#">> }

\* (?:sus\d+|add\d+|b\d+|#\d+) from index p
OneModifier(s, p) ==
    UNION { DigitRuns(s, p + Len(m)) : m \in { t \in ModifierTokens : Occurs(s, p, t) } }

\* A variant of the modifier group that takes one modifier at most.
ModifierGroup_single(s, P) == P \cup UNION { OneModifier(s, p) : p \in P }

\* zero or more modifiers (the starred group, itself optional)
RECURSIVE ModifierGroup(_, _)
ModifierGroup(s, P) ==
    LET N == P \cup UNION { OneModifier(s, p) : p \in P }
    IN  IF N = P THEN P ELSE ModifierGroup(s, N)

\* (\/[A-G][#b]?)?
BassGroup(s, P) ==
    P \cup UNION { IF Occurs(s, p, <<"/">>) /\ p + 1 <= Len(s) /\ s[p + 1] \in RootLetters
                   THEN {p + 2} \cup (IF p + 2 <= Len(s) /\ s[p + 2] \in Accidentals
                                      THEN {p + 3} ELSE {})
                   ELSE {} : p \in P }

\* A variant of the pattern without its end anchor: a matching prefix is enough.
CHORD_PATTERN_unanchored(chord) ==
    BassGroup(chord, ModifierGroup(chord, ExtensionGroup(chord,
        QualityGroup(chord, RootGroup(chord))))) # {}

\* chord.match(CHORD_PATTERN) is not null
CHORD_PATTERN(chord) ==
    (Len(chord) + 1) \in
        BassGroup(chord, ModifierGroup(chord, ExtensionGroup(chord,
            QualityGroup(chord, RootGroup(chord)))))

(***************************************************************************)
(* parseChordSuggestions                                                   *)
(***************************************************************************)
InvalidFormat == [kind |-> "InvalidFormat"]           \* 'Invalid JSON response format'
InvalidCount(n) == [kind |-> "InvalidCount", count |-> n]
InvalidChord(chord) == [kind |-> "InvalidChord", chord |-> chord]
SyntaxError == [kind |-> "SyntaxError"]               \* thrown by JSON.parse
TypeError == [kind |-> "TypeError"]                   \* chord.match is not a function
Unmodelled == [kind |-> "Unmodelled"]                 \* JSON outside the modelled subset
Ok(list) == [kind |-> "ok", suggestions |-> list]

KeyLiteral ==
    <<"\"", "c", "h", "o", "r", "d", "S", "u", "g", "g", "e", "s", "t", "i", "o", "n", "s", "\"">>

NoMatch == [found |-> FALSE, bracket |-> 0, close |-> 0]

\* The extraction pattern { "chordSuggestions" : [ ... ] } (\s* between its
\* tokens) anchored at index i: the lazy body stops at the first "]" that
\* optional whitespace and "}" follow.
MatchAt(text, i) ==
    LET a == SkipWs(text, i + 1)
        b == SkipWs(text, a + Len(KeyLiteral))
        c == SkipWs(text, b + 1)
        closers == { k \in (c + 1)..Len(text) :
                       /\ text[k] = "]"
                       /\ SkipWs(text, k + 1) <= Len(text)
                       /\ text[SkipWs(text, k + 1)] = "}" }
    IN  IF /\ Occurs(text, i, <<"{">>)
           /\ Occurs(text, a, KeyLiteral)
           /\ Occurs(text, b, <<":">>)
           /\ Occurs(text, c, <<"[">>)
           /\ closers # {}
        THEN [found |-> TRUE, bracket |-> c, close |-> MinOf(closers)]
        ELSE NoMatch

\* A variant of the extraction that wants the object at the start of the text.
RegexMatch_fromStart(text) == MatchAt(text, 1)

\* text.match(regex): the leftmost match
RegexMatch(text) ==
    LET starts == { i \in 1..Len(text) : MatchAt(text, i).found }
    IN  IF starts = {} THEN NoMatch ELSE MatchAt(text, MinOf(starts))

Structural == {"[", "]", "{", "}", ":", "\"", "\\"}
BareLiterals == { <<"n", "u", "l", "l">>, <<"t", "r", "u", "e">>, <<"f", "a", "l", "s", "e">> }

\* The first index at or after i holding whitespace or a comma.
RECURSIVE TokenEnd(_, _)
TokenEnd(s, i) ==
    IF i <= Len(s) /\ s[i] \notin (Whitespace \cup {","}) THEN TokenEnd(s, i + 1) ELSE i

IsNumber(token) ==
    /\ Len(token) >= 1
    /\ \A k \in 1..Len(token) : token[k] \in Digits
    /\ (Len(token) > 1 => token[1] # "0")

\* JSON.parse of the elements of an array, s being the text between its
\* brackets: string literals without escapes, numbers and null/true/false,
\* separated by commas.  An element is [string, chars].
RECURSIVE ParseElements(_, _, _)
ParseElements(s, i, acc) ==
    LET p == SkipWs(s, i)
        After(n, element) ==
            IF n > Len(s) THEN [kind |-> "ok", value |-> Append(acc, element)]
            ELSE IF s[n] = "," THEN ParseElements(s, n + 1, Append(acc, element))
            ELSE IF s[n] \in Structural THEN Unmodelled
            ELSE SyntaxError
    IN  IF p > Len(s) THEN SyntaxError
        ELSE IF s[p] = "\""
        THEN LET closes == { j \in (p + 1)..Len(s) : s[j] = "\"" }
             IN  IF closes = {} THEN SyntaxError
                 ELSE LET j == MinOf(closes)
                          body == SubSeq(s, p + 1, j - 1)
                      IN  IF \E k \in 1..Len(body) : body[k] = "\\" THEN Unmodelled
                          ELSE IF \E k \in 1..Len(body) : body[k] \in {"\n", "\t"}
                          THEN SyntaxError
                          ELSE After(SkipWs(s, j + 1), [string |-> TRUE, chars |-> body])
        ELSE LET e == TokenEnd(s, p)
                 token == SubSeq(s, p, e - 1)
             IN  IF \E k \in 1..Len(token) : token[k] \in Structural THEN Unmodelled
                 ELSE IF token \in BareLiterals \/ IsNumber(token)
                 THEN After(SkipWs(s, e), [string |-> FALSE, chars |-> token])
                 ELSE SyntaxError

\* JSON.parse(match[0]).chordSuggestions
JSONparse(text, match) ==
    LET content == SubSeq(text, match.bracket + 1, match.close - 1)
    IN  IF SkipWs(content, 1) > Len(content)
        THEN [kind |-> "ok", value |-> <<>>]
        ELSE ParseElements(content, 1, <<>>)

\* A variant of the count check that only turns away too few.
WrongCount_tooFewOnly(chordSuggestions) == Len(chordSuggestions) < NUM_SUGGESTIONS

\* chordSuggestions.length !== NUM_SUGGESTIONS
WrongCount(chordSuggestions) == Len(chordSuggestions) # NUM_SUGGESTIONS

\* A variant that checks every entry's notation before it counts them.
parseChordSuggestions_grammarFirst(text) ==
    LET match == RegexMatch(text)
    IN  IF ~match.found THEN InvalidFormat
        ELSE LET parsed == JSONparse(text, match)
             IN  IF parsed.kind # "ok" THEN parsed
                 ELSE LET chordSuggestions == parsed.value
                          bad == { i \in 1..Len(chordSuggestions) :
                                     \/ ~chordSuggestions[i].string
                                     \/ ~CHORD_PATTERN(chordSuggestions[i].chars) }
                      IN  IF bad # {}
                          THEN IF ~chordSuggestions[MinOf(bad)].string THEN TypeError
                               ELSE InvalidChord(chordSuggestions[MinOf(bad)].chars)
                          ELSE IF WrongCount(chordSuggestions)
                          THEN InvalidCount(Len(chordSuggestions))
                          ELSE Ok([i \in 1..Len(chordSuggestions) |-> chordSuggestions[i].chars])

\* What parseChordSuggestions returns (Ok) or throws.
parseChordSuggestions(text) ==
    LET match == RegexMatch(text)
    IN  IF ~match.found THEN InvalidFormat
        ELSE LET parsed == JSONparse(text, match)
             IN  IF parsed.kind # "ok" THEN parsed
                 ELSE LET chordSuggestions == parsed.value
                          bad == { i \in 1..Len(chordSuggestions) :
                                     \/ ~chordSuggestions[i].string
                                     \/ ~CHORD_PATTERN(chordSuggestions[i].chars) }
                      IN  IF WrongCount(chordSuggestions)
                          THEN InvalidCount(Len(chordSuggestions))
                          ELSE IF bad = {}
                          THEN Ok([i \in 1..Len(chordSuggestions) |-> chordSuggestions[i].chars])
                          ELSE IF ~chordSuggestions[MinOf(bad)].string THEN TypeError
                          ELSE InvalidChord(chordSuggestions[MinOf(bad)].chars)

(***************************************************************************)
(* Responses of the external generator                                     *)
(***************************************************************************)
\* Chord symbols, as texts.
sC == <<"C">>
sG == <<"G">>
sAm == <<"A", "m">>
sF == <<"F">>
sDm == <<"D", "m">>
sEm == <<"E", "m">>
sG7 == <<"G", "7">>
sCmaj7 == <<"C", "m", "a", "j", "7">>
sAm7b5 == <<"A", "m", "7", "b", "5">>
sFsharpDim == <<"F", "#", "d", "i", "m">>
sG9 == <<"G", "9">>
sE7 == <<"E", "7">>
sBbOverD == <<"B", "b", "/", "D">>
sCsus4 == <<"C", "s", "u", "s", "4">>
sC13s11b9 == <<"C", "1", "3", "#", "1", "1", "b", "9">>
sH == <<"H">>
sCsus == <<"C", "s", "u", "s">>
sCminor == <<"C", "m", "i", "n", "o", "r">>

\* Symbols of the notation grammar: root, optional quality, optional
\* extension, modifiers, optional slash bass.
Conforming ==
    { sC, sG, sAm, sF, sDm, sEm, sG7, sCmaj7, sAm7b5, sFsharpDim, sG9, sE7,
      sBbOverD, sCsus4 }
\* Strings outside it: no root letter, a modifier without its degree, a
\* quality followed by letters.
NonConforming == { sH, sCsus, sCminor }

Twelve == <<sC, sG, sAm, sF, sDm, sEm, sG7, sCmaj7, sAm7b5, sFsharpDim, sG9, sE7>>

Replace(list, i, x) == [list EXCEPT ![i] = x]
Reverse(list) == [i \in 1..Len(list) |-> list[Len(list) + 1 - i]]

RECURSIVE Flatten(_)
Flatten(parts) == IF Len(parts) = 0 THEN <<>> ELSE Head(parts) \o Flatten(Tail(parts))

\* "c1"<sep>"c2"<sep>...
RECURSIVE Quoted(_, _)
Quoted(list, sep) ==
    IF Len(list) = 0 THEN <<>>
    ELSE IF Len(list) = 1 THEN <<"\"">> \o list[1] \o <<"\"">>
    ELSE <<"\"">> \o list[1] \o <<"\"">> \o sep \o Quoted(Tail(list), sep)

\* {"chordSuggestions":["c1","c2",...]}
ObjectText(list) ==
    Flatten(<< <<"{">>, KeyLiteral, <<":", "[">>, Quoted(list, <<",">>), <<"]", "}">> >>)

\* The same object laid out as the prompt's OUTPUT FORMAT shows it.
PrettyText(list) ==
    Flatten(<< <<"{", "\n", " ", " ">>, KeyLiteral, <<":", " ", "[">>,
               Quoted(list, <<",", " ">>), <<"]", "\n", "}">> >>)

Prose == <<"H", "e", "r", "e", " ", "y", "o", "u", " ", "g", "o", ":", "\n">>
\* A markdown code fence (the tilde form; the pattern treats any fence alike).
Fence == <<"~", "~", "~">>
InProse(text) == Prose \o text \o <<"\n">> \o Prose
InFence(text) == Fence \o <<"j", "s", "o", "n", "\n">> \o text \o <<"\n">> \o Fence

\* Lists of exactly NUM_SUGGESTIONS pairwise distinct conforming symbols.
GoodLists ==
    { Twelve, Reverse(Twelve), Replace(Twelve, 3, sBbOverD), Replace(Twelve, 12, sCsus4) }

WellFormedTexts == { ObjectText(l) : l \in GoodLists } \cup { PrettyText(Twelve) }

\* Conforming symbols, but not NUM_SUGGESTIONS of them.
WrongCountLists == { SubSeq(Twelve, 1, 11), Append(Twelve, sBbOverD), <<>>, <<sC>> }
\* A wrong count and symbols outside the grammar.
WrongCountBadLists ==
    { SubSeq(Replace(Twelve, 2, sH), 1, 11), Append(Replace(Twelve, 7, sCsus), sH) }
WrongCountTexts == { ObjectText(l) : l \in WrongCountLists \cup WrongCountBadLists }

ComplexList == Replace(Twelve, 5, sC13s11b9)
DuplicateList == Replace(Twelve, 2, sC)
OneBadLists == { Replace(Twelve, i, x) : <<i, x>> \in {1, 7, 12} \X NonConforming }
TwoBadList == Replace(Replace(Twelve, 4, sCsus), 9, sH)

WrappedTexts == { InProse(ObjectText(Twelve)), InFence(PrettyText(Reverse(Twelve))) }

MalformedTexts ==
    { Prose,
      <<>>,
      Flatten(<< <<"[">>, Quoted(Twelve, <<",">>), <<"]">> >>),
      Flatten(<< <<"{">>, KeyLiteral, <<":", "[">>, Quoted(Twelve, <<",">>), <<",", "]", "}">> >>),
      Flatten(<< <<"{">>, KeyLiteral, <<":", "[">>, Quoted(SubSeq(Twelve, 1, 11), <<",">>),
                 <<",", "7", "]", "}">> >> ) }

\* No object at all, and inside a wrong count and symbols outside the grammar.
BareArrayTexts ==
    { Flatten(<< <<"[">>, Quoted(l, <<",">>), <<"]">> >>) : l \in WrongCountBadLists }

Texts ==
    WellFormedTexts \cup WrongCountTexts \cup WrappedTexts \cup MalformedTexts
    \cup BareArrayTexts
    \cup { ObjectText(l) : l \in OneBadLists \cup {ComplexList, DuplicateList, TwoBadList} }

\* parseChordSuggestions is a pure function of the response text: its value
\* on each response the generator can give.
Parsed == [t \in Texts |-> parseChordSuggestions(t)]

ExternalError(e) == [kind |-> "ExternalError", cause |-> e]

\* Failures of the external call (network, authentication, quota).
LLMErrors == { ExternalError("network"), ExternalError("quota") }

(***************************************************************************)
(* Suggestion pipeline                                                     *)
(***************************************************************************)
\* `${progression.chords}`: Array.prototype.toString joins with "," and
\* renders null and undefined as the empty string.
RECURSIVE ArrayToString(_)
ArrayToString(arr) ==
    LET Item(x) == IF x = null \/ x = undefined THEN "" ELSE x
    IN  IF Len(arr) = 0 THEN ""
        ELSE IF Len(arr) = 1 THEN Item(arr[1])
        ELSE Item(arr[1]) \o "," \o ArrayToString(Tail(arr))

\* The fields the prompt template interpolates; the rest of it is fixed text.
createSuggestionPrompt(prog, position) ==
    [key |-> prog.key, chords |-> ArrayToString(prog.chords),
     position |-> position, count |-> NUM_SUGGESTIONS]

NoPrompt == [key |-> "", chords |-> "", position |-> -1, count |-> 0]
NoText == <<>>
Pending == [kind |-> "pending"]

Idle == [state |-> "idle", prompt |-> NoPrompt, calls |-> 0, text |-> NoText,
         outcome |-> Pending]

RequestIds == 1..MaxRequests

\* A variant that sends the prompt first and checks the position afterwards.
suggestChords_promptFirst(r, position) ==
    /\ requests[r].state # "awaiting"
    /\ requests' = [requests EXCEPT ![r] =
         IF validatePosition(position) # NoError
         THEN [Idle EXCEPT !.state = "done", !.calls = 1,
                           !.outcome = validatePosition(position)]
         ELSE [Idle EXCEPT !.state = "awaiting",
                           !.prompt = createSuggestionPrompt(progression, position),
                           !.calls = 1]]
    /\ UNCHANGED <<progression, thrown>>

\* suggestChords up to its await: the bounds check, then the prompt built
\* from this.progression and handed to llm.executeLLM.  `calls` counts the
\* invocations of llm.executeLLM this request has made.
suggestChords(r, position) ==
    /\ requests[r].state # "awaiting"
    /\ requests' = [requests EXCEPT ![r] =
         IF validatePosition(position) # NoError
         THEN [Idle EXCEPT !.state = "done", !.outcome = validatePosition(position)]
         ELSE [Idle EXCEPT !.state = "awaiting",
                           !.prompt = createSuggestionPrompt(progression, position),
                           !.calls = 1]]
    /\ UNCHANGED <<progression, thrown>>

\* A variant of the continuation that checks the position again, against the
\* store as it is when the response arrives.
executeLLMResolved_revalidate(r, text) ==
    /\ requests[r].state = "awaiting"
    /\ requests' = [requests EXCEPT ![r] =
         [@ EXCEPT !.state = "done", !.prompt = NoPrompt, !.text = text,
                   !.outcome = IF validatePosition(requests[r].prompt.position) # NoError
                               THEN validatePosition(requests[r].prompt.position)
                               ELSE Parsed[text]]]
    /\ UNCHANGED <<progression, thrown>>

\* A variant in which one arriving response settles every waiting request.
executeLLMResolved_shared(r, text) ==
    /\ requests[r].state = "awaiting"
    /\ requests' = [q \in DOMAIN requests |->
         IF requests[q].state = "awaiting"
         THEN [requests[q] EXCEPT !.state = "done", !.prompt = NoPrompt, !.text = text,
                                  !.outcome = Parsed[text]]
         ELSE requests[q]]
    /\ UNCHANGED <<progression, thrown>>

\* A variant of the continuation that puts a chord into the slot the
\* suggestions were asked for.
executeLLMResolved_storing(r, text) ==
    /\ requests[r].state = "awaiting"
    /\ requests' = [requests EXCEPT ![r] =
         [@ EXCEPT !.state = "done", !.prompt = NoPrompt, !.text = text,
                   !.outcome = Parsed[text]]]
    /\ progression' =
         IF Parsed[text].kind = "ok" /\ requests[r].prompt.position < Len(progression.chords)
         THEN [progression EXCEPT !.chords[requests[r].prompt.position + 1] = "C"]
         ELSE progression
    /\ UNCHANGED thrown

\* llm.executeLLM's promise resolves with `text`: the request returns what
\* parseChordSuggestions returns, or rejects with what it throws (the catch
\* block logs and rethrows the same error).
executeLLMResolved(r, text) ==
    /\ requests[r].state = "awaiting"
    /\ requests' = [requests EXCEPT ![r] =
         [@ EXCEPT !.state = "done", !.prompt = NoPrompt, !.text = text,
                   !.outcome = Parsed[text]]]
    /\ UNCHANGED <<progression, thrown>>

\* A variant of the catch block that asks the collaborator once more.
executeLLMRejected_retry(r, error) ==
    /\ requests[r].state = "awaiting"
    /\ requests' = [requests EXCEPT ![r] =
         IF @.calls < 2
         THEN [@ EXCEPT !.calls = @ + 1]
         ELSE [@ EXCEPT !.state = "done", !.prompt = NoPrompt, !.outcome = error]]
    /\ UNCHANGED <<progression, thrown>>

\* llm.executeLLM's promise rejects with `error`: the catch block rethrows it.
executeLLMRejected(r, error) ==
    /\ requests[r].state = "awaiting"
    /\ requests' = [requests EXCEPT ![r] =
         [@ EXCEPT !.state = "done", !.prompt = NoPrompt, !.outcome = error]]
    /\ UNCHANGED <<progression, thrown>>

(***************************************************************************)
(* Specifications                                                          *)
(***************************************************************************)
Length == Len(progression.chords)
InRange(position) == position \in 0..(Length - 1)

NoCall == [op |-> "none", args |-> <<>>, before |-> [key |-> "", chords |-> <<>>],
           error |-> NoError, net |-> 0]
NoScript == [plan |-> <<>>, order |-> "none", slots |-> 0, chords |-> 0, failed |-> FALSE]

\* new ProgressionBuilder(key): the key given (default "C major"), no slots.
Init ==
    /\ progression \in { [key |-> k, chords |-> <<>>] : k \in Keys }
    /\ thrown = NoError
    /\ requests = [r \in RequestIds |-> Idle]
    /\ last = NoCall
    /\ script = NoScript

\* The history of a store call: its name and arguments, the store before it
\* and the error it threw; `net` is the number of addSlot calls that returned
\* minus the number of removeSlot calls that returned, over the recorded calls.
Recorded(op, args) ==
    /\ last' = [op |-> op, args |-> args, before |-> progression, error |-> thrown',
                net |-> IF thrown' # NoError THEN last.net
                        ELSE IF op = "addSlot" THEN last.net + 1
                        ELSE IF op = "removeSlot" THEN last.net - 1
                        ELSE last.net]
    /\ UNCHANGED script

Positions == (-1)..MaxLen

\* The store under every call, in and out of range, and the suggestion calls
\* the bounds check turns away.
Next ==
    \/ \E key \in Keys : setKey(key) /\ Recorded("setKey", <<key>>)
    \/ Length < MaxLen /\ addSlot(<<>>) /\ Recorded("addSlot", <<>>)
    \/ \E p \in Positions :
         /\ Length < MaxLen \/ ~InRange(p)
         /\ addSlot(<<p>>) /\ Recorded("addSlot", <<p>>)
    \/ \E p \in Positions, c \in Chords : addChord(p, c) /\ Recorded("addChord", <<p, c>>)
    \/ \E p \in Positions : removeSlot(p) /\ Recorded("removeSlot", <<p>>)
    \/ \E p \in Positions : removeChord(p) /\ Recorded("removeChord", <<p>>)
    \/ \E p \in Positions :
         /\ ~InRange(p)
         /\ suggestChords(1, p)
         /\ last' = [op |-> "suggestChords", args |-> <<p>>, before |-> progression,
                     error |-> requests'[1].outcome, net |-> last.net]
         /\ UNCHANGED script

Spec == Init /\ [][Next]_vars

(***************************************************************************)
(* The round trip of the tests: slots appended and filled, either all      *)
(* slots first (batch) or slot by slot (alternating, part_000 80-88).      *)
(***************************************************************************)
Plans == UNION { [1..k -> Chords] : k \in 0..MaxPlan }

InitRoundTrip ==
    /\ progression = [key |-> DefaultKey, chords |-> <<>>]
    /\ thrown = NoError
    /\ requests = [r \in RequestIds |-> Idle]
    /\ last = NoCall
    /\ script \in { [NoScript EXCEPT !.plan = p, !.order = o] :
                      p \in Plans, o \in {"batch", "alternating"} }

ScriptAddSlot ==
    /\ script.slots < Len(script.plan)
    /\ script.order = "alternating" => script.slots = script.chords
    /\ addSlot(<<>>)
    /\ script' = [script EXCEPT !.slots = @ + 1, !.failed = @ \/ thrown' # NoError]
    /\ UNCHANGED last

ScriptAddChord ==
    /\ script.chords < script.slots
    /\ script.order = "batch" => script.slots = Len(script.plan)
    /\ addChord(script.chords, script.plan[script.chords + 1])
    /\ script' = [script EXCEPT !.chords = @ + 1, !.failed = @ \/ thrown' # NoError]
    /\ UNCHANGED last

NextRoundTrip == ScriptAddSlot \/ ScriptAddChord

SpecRoundTrip == InitRoundTrip /\ [][NextRoundTrip]_vars

(***************************************************************************)
(* One suggestion request at a time, the store mutated while it waits.     *)
(***************************************************************************)
FlightKeys == {"C major", "A minor"}
FlightChords == {"Am"}
FlightPositions == (-1)..MaxFlightLen    \* asked of suggestChords
FlightSlots == 0..(MaxFlightLen - 1)      \* asked of the store meanwhile

Unrecorded == UNCHANGED <<last, script>>

NextPipeline ==
    \/ \E key \in FlightKeys : setKey(key) /\ Unrecorded
    \/ Length < MaxFlightLen /\ addSlot(<<>>) /\ Unrecorded
    \/ \E p \in FlightSlots :
         /\ Length < MaxFlightLen \/ ~InRange(p)
         /\ addSlot(<<p>>) /\ Unrecorded
    \/ \E p \in FlightSlots, c \in FlightChords : addChord(p, c) /\ Unrecorded
    \/ \E p \in FlightSlots : removeSlot(p) /\ Unrecorded
    \/ \E p \in FlightSlots : removeChord(p) /\ Unrecorded
    \/ \E p \in FlightPositions :
         /\ suggestChords(1, p)
         /\ last' = [op |-> "suggestChords", args |-> <<p>>, before |-> progression,
                     error |-> NoError, net |-> last.net]
         /\ UNCHANGED script
    \/ \E t \in Texts : executeLLMResolved(1, t) /\ Unrecorded
    \/ \E e \in LLMErrors :
         /\ executeLLMRejected(1, e)
         /\ last' = [op |-> "executeLLM", args |-> last.args, before |-> last.before,
                     error |-> e, net |-> last.net]
         /\ UNCHANGED script

SpecPipeline == Init /\ [][NextPipeline]_vars

(***************************************************************************)
(* Several suggestion requests in flight on one progression: each call     *)
(* awaits its own llm.executeLLM promise, and the promises settle in any   *)
(* order.  `last` records the latest step of a request: the call made, or  *)
(* the response or failure delivered and the request it was delivered to.  *)
(***************************************************************************)
ConcurrentTexts == { ObjectText(Twelve), ObjectText(Reverse(Twelve)), ObjectText(TwoBadList) }

Delivered(op, r, what) ==
    /\ last' = [op |-> op, args |-> <<r, what>>, before |-> progression, error |-> NoError,
                net |-> last.net]
    /\ UNCHANGED script

NextConcurrent ==
    \/ Length < MaxFlightLen /\ addSlot(<<>>) /\ Unrecorded
    \/ \E r \in RequestIds, p \in FlightSlots :
         suggestChords(r, p) /\ Delivered("suggestChords", r, p)
    \/ \E r \in RequestIds, t \in ConcurrentTexts :
         executeLLMResolved(r, t) /\ Delivered("resolved", r, t)
    \/ \E r \in RequestIds, e \in LLMErrors :
         executeLLMRejected(r, e) /\ Delivered("rejected", r, e)

SpecConcurrent == Init /\ [][NextConcurrent]_vars

(***************************************************************************)
(* Properties of the store (checked under Spec)                            *)
(***************************************************************************)
Before == last.before.chords
Now == progression.chords

\* The last call took a position: every store call but setKey and addSlot().
Positional ==
    \/ last.op \in {"addChord", "removeSlot", "removeChord", "suggestChords"}
    \/ last.op = "addSlot" /\ Len(last.args) = 1

\* C1: a call of addSlot(position), addChord, removeSlot, removeChord or
\* suggestChords with a position outside [0, length) fails with the
\* invalid-position error, which carries the position and the last valid
\* index, and leaves key and chords as they were.
C1_OutOfRangeRejected ==
    (Positional /\ last.args[1] \notin 0..(Len(Before) - 1)) =>
        /\ last.error = InvalidPosition(last.args[1], Len(Before))
        /\ progression = last.before

C1_Witness ==
    /\ last.op = "removeSlot"
    /\ Len(Before) = 2 /\ last.args[1] = 2
    /\ Before[1] # null /\ Before[2] # null
    /\ last.error.kind = "InvalidPosition"

\* C2: addChord(position, c) within bounds sets that slot to c and
\* removeChord(position) sets it to empty; length, key and every other slot
\* are unchanged.
C2_ChordEditsOneSlot ==
    (last.op \in {"addChord", "removeChord"} /\ last.args[1] \in 0..(Len(Before) - 1)) =>
        LET value == IF last.op = "addChord" THEN last.args[2] ELSE null
        IN  /\ last.error = NoError
            /\ progression.key = last.before.key
            /\ Len(Now) = Len(Before)
            /\ \A i \in 1..Len(Before) :
                 Now[i] = IF i = last.args[1] + 1 THEN value ELSE Before[i]

C2_Witness ==
    /\ last.op = "addChord" /\ last.args = <<1, "Am">>
    /\ Before = <<"C", "C", null>>
    /\ Now = <<"C", "Am", null>>

\* C3: addSlot() does not fail and makes the sequence one longer: the new
\* last slot is empty, every earlier slot keeps its index and content.
C3_AppendSlot ==
    (last.op = "addSlot" /\ Len(last.args) = 0) =>
        /\ last.error = NoError
        /\ Len(Now) = Len(Before) + 1
        /\ Now[Len(Now)] = null
        /\ \A i \in 1..Len(Before) : Now[i] = Before[i]

C3_Witness ==
    /\ last.op = "addSlot" /\ Len(last.args) = 0
    /\ Before = <<"Am", "C">>
    /\ Len(Now) = 3

\* C4: removeSlot(position) within bounds makes the sequence one shorter:
\* slots below position are unchanged, each slot above it moves down by one.
C4_RemoveSlotShifts ==
    (last.op = "removeSlot" /\ last.args[1] \in 0..(Len(Before) - 1)) =>
        /\ Len(Now) = Len(Before) - 1
        /\ \A i \in 1..(Len(Before) - 1) :
             Now[i] = IF i <= last.args[1] THEN Before[i] ELSE Before[i + 1]

C4_Witness ==
    /\ last.op = "removeSlot" /\ last.args[1] = 1
    /\ Before = <<"C", null, "Am">>
    /\ Now = <<"C", "Am">>

\* C5: addSlot(position) succeeds exactly when 0 <= position < length before
\* the call, and is rejected with the invalid-position error otherwise
\* (position = length included); on success slot position is empty, slots
\* below it are unchanged and each slot at or above it moved up by one.
C5_InsertSlot ==
    (last.op = "addSlot" /\ Len(last.args) = 1) =>
        LET p == last.args[1]
            n == Len(Before)
        IN  /\ (last.error = NoError) <=> (0 <= p /\ p < n)
            /\ last.error # NoError =>
                 /\ last.error.kind = "InvalidPosition"
                 /\ progression = last.before
            /\ last.error = NoError =>
                 /\ Len(Now) = n + 1
                 /\ Now[p + 1] = null
                 /\ \A i \in 1..n : Before[i] = IF i <= p THEN Now[i] ELSE Now[i + 1]

C5_Witness ==
    /\ last.op = "addSlot" /\ last.args = <<1>>
    /\ Before = <<"C", "Am">>
    /\ Now = <<"C", null, "Am">>

(***************************************************************************)
(* The round trip (checked under SpecRoundTrip)                            *)
(***************************************************************************)
ScriptDone ==
    /\ script.order # "none"
    /\ script.slots = Len(script.plan)
    /\ script.chords = Len(script.plan)

\* C6: k times addSlot() and addChord(i, ci) for each index, all slots first
\* or slot by slot, raises no error and leaves exactly <<c0, ..., c(k-1)>>.
C6_RoundTrip ==
    /\ ~script.failed
    /\ ScriptDone => progression.chords = script.plan

C6_Witness ==
    /\ ScriptDone
    /\ script.order = "alternating"
    /\ script.plan = <<"C", "Am", "C">>
    /\ progression.chords = <<"C", "Am", "C">>

(***************************************************************************)
(* Properties of the pipeline (checked under SpecPipeline)                 *)
(***************************************************************************)
Request == requests[1]
Answered == Request.state = "done" /\ Request.calls = 1

\* Every response is within the modelled subset of JSON.
ResponsesModelled == \A t \in Texts : Parsed[t].kind # "Unmodelled"

\* C7: the request works on what the progression was when it started: the
\* prompt it sent is the rendering of the key, chords and position of that
\* moment whatever the store has become since, and its outcome is decided by
\* the response alone (a position the store has since made invalid does not
\* fail it, a well-formed response still succeeds).
C7_RequestIsolated ==
    /\ Request.state = "awaiting" =>
         Request.prompt = [key |-> last.before.key,
                           chords |-> ArrayToString(last.before.chords),
                           position |-> last.args[1],
                           count |-> NUM_SUGGESTIONS]
    /\ Answered =>
         /\ Request.outcome.kind # "InvalidPosition"
         /\ Request.text \in WellFormedTexts => Request.outcome.kind = "ok"

C7_Witness ==
    /\ Answered
    /\ Request.outcome.kind = "ok"
    /\ last.op = "suggestChords" /\ last.args[1] = 1
    /\ last.before.chords = <<null, "Am">>
    /\ progression # last.before
    /\ Len(progression.chords) = 0

GoodPairs == { <<ObjectText(l), l>> : l \in GoodLists } \cup { <<PrettyText(Twelve), Twelve>> }

\* C8: a well-formed object of 12 conforming symbols is returned as it is:
\* the same symbols in the same order.
C8_WellFormedReturned ==
    \A pair \in GoodPairs :
        (Answered /\ Request.text = pair[1]) => Request.outcome = Ok(pair[2])

ReversedText == ObjectText(Reverse(Twelve))

C8_Witness ==
    /\ Answered
    /\ Request.text = ReversedText
    /\ Request.outcome.kind = "ok"
    /\ Request.outcome.suggestions[1] = sE7

WrongCountPairs == { <<ObjectText(l), Len(l)>> : l \in WrongCountLists }

\* C9: an array of conforming symbols whose length is not 12 (11, 13, 1, 0)
\* makes the request fail with the wrong-count error citing that length; no
\* list is returned, truncated or padded.
C9_WrongCountRejected ==
    \A pair \in WrongCountPairs :
        (Answered /\ Request.text = pair[1]) => Request.outcome = InvalidCount(pair[2])

ThirteenText == ObjectText(Append(Twelve, sBbOverD))

C9_Witness ==
    /\ Answered
    /\ Request.text = ThirteenText
    /\ Request.outcome = InvalidCount(13)

ComplexText == ObjectText(ComplexList)
OneBadPairs == { <<ObjectText(Replace(Twelve, x[1], x[2])), x[2]>> : x \in {1, 7, 12} \X NonConforming }

\* C10 as stated: a 12-entry response holding "C13#11b9" fails with the
\* invalid-symbol error citing that value.
C10_ComplexRejected ==
    (Answered /\ Request.text = ComplexText) => Request.outcome = InvalidChord(sC13s11b9)

\* C10, amended: "C13#11b9" matches the pattern (an extension and any number
\* of modifiers), so the response holding it is returned as it is; the
\* invalid-symbol error, citing exactly the value, is raised for an entry
\* that does not match (no root letter, a modifier without its degree,
\* letters after the quality).
C10_ComplexAccepted ==
    /\ (Answered /\ Request.text = ComplexText) => Request.outcome = Ok(ComplexList)
    /\ \A pair \in OneBadPairs :
         (Answered /\ Request.text = pair[1]) => Request.outcome = InvalidChord(pair[2])

C10_Witness ==
    /\ Answered
    /\ Request.text = ComplexText
    /\ Request.outcome.kind = "ok"
    /\ Request.outcome.suggestions[5] = sC13s11b9

ProseText == InProse(ObjectText(Twelve))
FencedText == InFence(PrettyText(Reverse(Twelve)))
WrappedPairs == { <<ProseText, Twelve>>, <<FencedText, Reverse(Twelve)>> }

\* C11: a valid object of 12 conforming symbols with prose or a markdown
\* fence around it is still extracted, and its 12 symbols returned in order.
C11_WrappedExtracted ==
    \A pair \in WrappedPairs :
        (Answered /\ Request.text = pair[1]) => Request.outcome = Ok(pair[2])

C11_Witness ==
    /\ Answered
    /\ Request.text = FencedText
    /\ Request.outcome = Ok(Reverse(Twelve))

Distinct(list) == \A i, j \in 1..Len(list) : i # j => list[i] # list[j]
DuplicateText == ObjectText(DuplicateList)

\* C12 as stated: a returned list is 12 pairwise distinct symbols.
C12_ReturnedDistinct ==
    (Answered /\ Request.outcome.kind = "ok") =>
        /\ Len(Request.outcome.suggestions) = NUM_SUGGESTIONS
        /\ Distinct(Request.outcome.suggestions)

\* C12, amended: a returned list is exactly 12 symbols of the notation
\* grammar, in the order of the response; that they are pairwise distinct is
\* asked of the generator and not verified, so a response that repeats a
\* symbol is returned with the repetition.
C12_ReturnedTwelveConforming ==
    /\ (Answered /\ Request.outcome.kind = "ok") =>
         /\ Len(Request.outcome.suggestions) = NUM_SUGGESTIONS
         /\ \A i \in 1..Len(Request.outcome.suggestions) :
              Request.outcome.suggestions[i] \in Conforming \cup {sC13s11b9}
    /\ (Answered /\ Request.text = DuplicateText) => Request.outcome = Ok(DuplicateList)

C12_Witness ==
    /\ Answered
    /\ Request.text = DuplicateText
    /\ Request.outcome.kind = "ok"
    /\ Request.outcome.suggestions[1] = Request.outcome.suggestions[2]

\* C13: a request calls the collaborator at most once; when that call fails
\* the request ends with the very error the collaborator raised, returns no
\* list and makes no second call.
C13_ExternalFailurePropagates ==
    /\ Request.calls <= 1
    /\ last.op = "executeLLM" =>
         /\ Request.state = "done"
         /\ Request.calls = 1
         /\ Request.outcome = last.error
         /\ Request.outcome.kind # "ok"

C13_Witness ==
    /\ last.op = "executeLLM"
    /\ Request.state = "done"
    /\ Request.calls = 1
    /\ Request.outcome = ExternalError("quota")

\* The position of the latest suggestChords call, and whether it was an
\* index of the progression the call found.
AskedPosition == last.args[1]
AskedInRange == AskedPosition \in 0..(Len(last.before.chords) - 1)

\* C14: suggestChords checks the position first: a position out of range,
\* which is every position while the progression is empty, ends the request
\* with the invalid-position error and the collaborator is never called; the
\* collaborator is called only after the position passed the check.
C14_PositionCheckedFirst ==
    /\ last.op = "none" => Request.calls = 0
    /\ last.op \in {"suggestChords", "executeLLM"} =>
         IF AskedInRange
         THEN /\ Request.calls = 1
              /\ Request.outcome.kind # "InvalidPosition"
         ELSE /\ Request.calls = 0
              /\ Request.state = "done"
              /\ Request.prompt = NoPrompt
              /\ Request.outcome =
                   InvalidPosition(AskedPosition, Len(last.before.chords))

C14_Witness ==
    /\ last.op = "suggestChords"
    /\ last.before.chords = <<>>
    /\ AskedPosition = 0
    /\ Request.calls = 0
    /\ Request.outcome = InvalidPosition(0, 0)

TwoBadText == ObjectText(TwoBadList)

\* C15: the response is checked for structure, then for its count, then entry
\* by entry, and the first check that fails is the one reported: no object
\* is a format error whatever the entries are, a wrong count is reported
\* even when an entry is also outside the notation, and of several entries
\* outside the notation in a 12-entry array the one of lowest index is cited.
C15_FirstFailureReported ==
    Answered =>
      /\ Request.text \in BareArrayTexts => Request.outcome = InvalidFormat
      /\ \A l \in WrongCountBadLists :
           Request.text = ObjectText(l) => Request.outcome = InvalidCount(Len(l))
      /\ Request.text = TwoBadText => Request.outcome = InvalidChord(TwoBadList[4])

C15_Witness ==
    /\ Answered
    /\ Request.text = TwoBadText
    /\ ~CHORD_PATTERN(TwoBadList[4]) /\ ~CHORD_PATTERN(TwoBadList[9])
    /\ Request.outcome = InvalidChord(sCsus)

\* C16: no step of a suggestion request changes the store: not the call
\* (accepted or turned away by the bounds check), not the arrival of the
\* response (returned or rejected by validation), not the failure of the
\* external call; in particular no suggestion is written into a slot.
C16_RequestLeavesStore ==
    [][requests' # requests => progression' = progression]_vars

C16_Witness ==
    /\ Answered
    /\ Request.outcome.kind = "ok"
    /\ last.op = "suggestChords"
    /\ AskedInRange
    /\ progression = last.before
    /\ progression.chords[AskedPosition + 1] = null

\* C17: with several requests in flight, a response or failure that arrives
\* settles the request it was delivered to and no other: that request's
\* outcome is what validation makes of that response (or the failure itself),
\* and every other request, waiting or done, is left as it was, in whatever
\* order the responses arrive.
C17_OwnResponseOnly ==
    [][\A r \in RequestIds :
         /\ (last' # last /\ last'.op = "resolved" /\ last'.args[1] = r) =>
              /\ requests[r].state = "awaiting"
              /\ requests'[r].state = "done"
              /\ requests'[r].text = last'.args[2]
              /\ requests'[r].outcome = Parsed[last'.args[2]]
         /\ (last' # last /\ last'.op = "rejected" /\ last'.args[1] = r) =>
              /\ requests[r].state = "awaiting"
              /\ requests'[r].state = "done"
              /\ requests'[r].outcome = last'.args[2]
         /\ (last' = last \/ last'.args[1] # r) => requests'[r] = requests[r]
    ]_vars

\* Request 2 has just been answered while request 1 is still waiting for
\* its own response.
C17_Witness ==
    /\ last.op = "resolved" /\ last.args = <<2, ObjectText(Reverse(Twelve))>>
    /\ requests[2].state = "done" /\ requests[2].outcome = Ok(Reverse(Twelve))
    /\ requests[1].state = "awaiting" /\ requests[1].calls = 1

Returned == last.op # "none" /\ last.error = NoError

\* C18: from a new progression, after any sequence of calls, the number of
\* slots is the number of addSlot calls that returned minus the number of
\* removeSlot calls that returned, and is never negative; setKey, addChord,
\* removeChord, a suggestChords call and every call that was rejected leave
\* the number of slots as it was.
C18_LengthIsNetSlots ==
    /\ Len(Now) = last.net
    /\ last.net >= 0
    /\ (last.op # "none" /\ ~(Returned /\ last.op \in {"addSlot", "removeSlot"})) =>
         Len(Now) = Len(Before)

C18_Witness ==
    /\ last.op = "removeSlot" /\ Returned
    /\ Len(Before) = 3
    /\ last.net = 2
    /\ Len(Now) = 2

====
